---- MODULE Spec2Model ----
(***************************************************************************)
(* Model of the course planner Search (path_planner/src/course/search.cpp).*)
(*                                                                         *)
(* Units.  Course-graph points are integer pairs <<x, y>> (metres).  The   *)
(* doubles of the code are fixed-point integers: lengths, costs and pose   *)
(* coordinates in thousandths of a metre, headings in thousandths of a     *)
(* degree.  The defaults turning_penalty = 5.0 and                         *)
(* turning_straight_segment = 0.7 are 5000 and 700, and                    *)
(* backward_penalty_factor = 2.5 is kept as 25 tenths.  A square root, an  *)
(* arc tangent, a rotation and a product by 2.5 are rounded to the nearest *)
(* unit, so a length or a cost of the model is within a few thousandths of *)
(* the double the code computes; sums, differences and comparisons of      *)
(* these integers are exact.                                               *)
(***************************************************************************)
EXTENDS Integers, Sequences, FiniteSets, TLC

\* ------------------------------------------------------------------ bounds
\* number of findPath requests served by one Search instance
MaxCalls == 2

\* ------------------------------------------------------- program constants
\* course/penalty/backwards (2.5), in tenths
backward_penalty_factor == 25
\* course/penalty/turn (5.0), in thousandths
turning_penalty == 5000
\* course/turning/straight (0.7), in thousandths
turning_straight_segment == 700
\* std::numeric_limits<double>::infinity()
Infinity == 1000000

\* null pointers (Node*, Segment*)
NoNode == 0
NoSegment == 0

\* ------------------------------------------------------------- fixed point
Abs(a) == IF a < 0 THEN 0 - a ELSE a
\* a / b rounded to the nearest integer (b > 0)
RoundDiv(a, b) == (2 * a + b) \div (2 * b)

\* Newton's iteration for the square root of n from a start x above the
\* root (s is <<n, x>>)
SqrtFrom[s \in Nat \X Nat] ==
    LET n == s[1]
        x == s[2]
        y == (x + n \div x) \div 2
    IN  IF y >= x THEN x ELSE SqrtFrom[<<n, y>>]

\* std::sqrt of an integer, rounded to the nearest integer
ISqrt(n) ==
    IF n < 2 THEN n
    ELSE LET r == SqrtFrom[<<n, IF n > 46340 THEN 46340 ELSE n>>]
         IN  IF n - r * r > r THEN r + 1 ELSE r

\* atan(2^-i) in millionths of a degree, i = 0..23
ArcTangents ==
    <<45000000, 26565051, 14036243, 7125016, 3576334, 1789911, 895174, 447614,
      223811, 111906, 55953, 27976, 13988, 6994, 3497, 1749, 874, 437, 219,
      109, 55, 27, 14, 7>>

Pow2(i) == 2 ^ i

\* the angle (millionths of a degree) that turns <<x, y>>, x >= 0, onto the
\* x axis, added to z: shift-and-add steps i + 1, i + 2, ... (s is
\* <<x, y, z, i>>)
AngleOf[s \in Int \X Int \X Int \X Nat] ==
    LET x == s[1]
        y == s[2]
        z == s[3]
        i == s[4]
    IN  IF i = Len(ArcTangents)
        THEN z
        ELSE IF y > 0
             THEN AngleOf[<<x + y \div Pow2(i), y - x \div Pow2(i),
                            z + ArcTangents[i + 1], i + 1>>]
             ELSE AngleOf[<<x - y \div Pow2(i), y + x \div Pow2(i),
                            z - ArcTangents[i + 1], i + 1>>]

\* std::atan2(dy, dx) in thousandths of a degree
Atan2(dy, dx) ==
    IF dx = 0 /\ dy = 0
    THEN 0
    ELSE LET m == IF Abs(dx) > Abs(dy) THEN Abs(dx) ELSE Abs(dy)
             f == Pow2(28) \div m
             z == IF dx < 0
                  THEN AngleOf[<<(0 - dx) * f, (0 - dy) * f,
                                 IF dy >= 0 THEN 180000000 ELSE 0 - 180000000, 0>>]
                  ELSE AngleOf[<<dx * f, dy * f, 0, 0>>]
         IN  RoundDiv(z, 1000)

\* <<x, y>> turned by z millionths of a degree, |z| <= 90 degrees, from
\* step i + 1 on (s is <<x, y, z, i>>)
Turned[s \in Int \X Int \X Int \X Nat] ==
    LET x == s[1]
        y == s[2]
        z == s[3]
        i == s[4]
    IN  IF i = Len(ArcTangents)
        THEN <<x, y>>
        ELSE IF z >= 0
             THEN Turned[<<x - y \div Pow2(i), y + x \div Pow2(i),
                           z - ArcTangents[i + 1], i + 1>>]
             ELSE Turned[<<x + y \div Pow2(i), y - x \div Pow2(i),
                           z + ArcTangents[i + 1], i + 1>>]

\* rot * offset of the extendAlong functions: <<len * std::cos(yaw),
\* len * std::sin(yaw)>> for a heading in thousandths of a degree; 39797 is
\* 2^16 over the gain of the shift-and-add steps
Rotated(len, yaw) ==
    LET r == ((yaw + 180000) % 360000) - 180000
        flip == r > 90000 \/ r < 0 - 90000
        a == IF r > 90000 THEN r - 180000
             ELSE IF r < 0 - 90000 THEN r + 180000 ELSE r
        v == Turned[<<len * 39797, 0, a * 1000, 0>>]
        x == RoundDiv(v[1], 65536)
        y == RoundDiv(v[2], 65536)
    IN  IF flip THEN <<0 - x, 0 - y>> ELSE <<x, y>>

\* ---------------------------------------------------------------- vectors
Vec(a, b) == <<b[1] - a[1], b[2] - a[2]>>
Dot(u, v) == u[1] * v[1] + u[2] * v[2]
\* Eigen norm() of a vector of metres, in thousandths
Norm(v) == ISqrt(1000000 * Dot(v, v))

\* path_geom::PathPose(x, y, theta) at a course-graph point
PathPose(pt, yaw) == [x |-> 1000 * pt[1], y |-> 1000 * pt[2], theta |-> yaw]

Last(s) == s[Len(s)]
Reverse(s) == [i \in 1..Len(s) |-> s[Len(s) + 1 - i]]

\* ----------------------------------------------------------- course graphs
\* A Segment is [sp, ep, forward_transitions, backward_transitions]; the two
\* lists hold Transition identities (the address &t in the code).  A
\* Transition is [source, target, path, arc]; arc is arc_length() in thousandths.
\* As the course generator builds them, the forward list of a segment holds
\* the transitions leaving it and the backward list holds its own copies of
\* the transitions arriving at it.

\* G1: one forward transition from segment 1 to segment 2; segment 3 is
\* not connected to anything.
Graph1 ==
    [segments |-> <<
        [sp |-> <<0, 0>>, ep |-> <<4, 0>>,
         forward_transitions |-> <<1>>, backward_transitions |-> << >>],
        [sp |-> <<5, 1>>, ep |-> <<5, 4>>,
         forward_transitions |-> << >>, backward_transitions |-> <<2>>],
        [sp |-> <<0, 6>>, ep |-> <<4, 6>>,
         forward_transitions |-> << >>, backward_transitions |-> << >>] >>,
     transitions |-> <<
        [source |-> 1, target |-> 2, path |-> <<<<4, 0>>, <<5, 1>>>>, arc |-> 1400],
        [source |-> 1, target |-> 2, path |-> <<<<4, 0>>, <<5, 1>>>>, arc |-> 1400] >>]

\* G2: two parallel rows joined by two transitions at different places.
Graph2 ==
    [segments |-> <<
        [sp |-> <<0, 0>>, ep |-> <<6, 0>>,
         forward_transitions |-> <<1, 2>>, backward_transitions |-> << >>],
        [sp |-> <<0, 2>>, ep |-> <<6, 2>>,
         forward_transitions |-> << >>, backward_transitions |-> <<3, 4>>] >>,
     transitions |-> <<
        [source |-> 1, target |-> 2, path |-> <<<<1, 0>>, <<1, 1>>, <<1, 2>>>>, arc |-> 2000],
        [source |-> 1, target |-> 2, path |-> <<<<3, 0>>, <<4, 1>>, <<5, 2>>>>, arc |-> 2800],
        [source |-> 1, target |-> 2, path |-> <<<<1, 0>>, <<1, 1>>, <<1, 2>>>>, arc |-> 2000],
        [source |-> 1, target |-> 2, path |-> <<<<3, 0>>, <<4, 1>>, <<5, 2>>>>, arc |-> 2800] >>]

\* G3: three rows; two transitions from row 1 to row 2 and one from row 2
\* to row 3, so that a Node is reached along more than one chain and the
\* chain found later can be the cheaper one.
Graph3 ==
    [segments |-> <<
        [sp |-> <<0, 0>>, ep |-> <<6, 0>>,
         forward_transitions |-> <<1, 2>>, backward_transitions |-> << >>],
        [sp |-> <<0, 2>>, ep |-> <<6, 2>>,
         forward_transitions |-> <<3>>, backward_transitions |-> <<4, 5>>],
        [sp |-> <<0, 4>>, ep |-> <<6, 4>>,
         forward_transitions |-> << >>, backward_transitions |-> <<6>>] >>,
     transitions |-> <<
        [source |-> 1, target |-> 2, path |-> <<<<1, 0>>, <<1, 1>>, <<1, 2>>>>, arc |-> 4000],
        [source |-> 1, target |-> 2, path |-> <<<<5, 0>>, <<5, 1>>, <<5, 2>>>>, arc |-> 2000],
        [source |-> 2, target |-> 3, path |-> <<<<6, 2>>, <<6, 3>>, <<6, 4>>>>, arc |-> 2000],
        [source |-> 1, target |-> 2, path |-> <<<<1, 0>>, <<1, 1>>, <<1, 2>>>>, arc |-> 4000],
        [source |-> 1, target |-> 2, path |-> <<<<5, 0>>, <<5, 1>>, <<5, 2>>>>, arc |-> 2000],
        [source |-> 2, target |-> 3, path |-> <<<<6, 2>>, <<6, 3>>, <<6, 4>>>>, arc |-> 2000] >>]

\* G4: a fork; two transitions leave row 1 at the same point, one to row 2
\* and one to row 3.
Graph4 ==
    [segments |-> <<
        [sp |-> <<0, 0>>, ep |-> <<4, 0>>,
         forward_transitions |-> <<1, 2>>, backward_transitions |-> << >>],
        [sp |-> <<5, 1>>, ep |-> <<5, 4>>,
         forward_transitions |-> << >>, backward_transitions |-> <<3>>],
        [sp |-> <<5, 0 - 1>>, ep |-> <<5, 0 - 4>>,
         forward_transitions |-> << >>, backward_transitions |-> <<4>>] >>,
     transitions |-> <<
        [source |-> 1, target |-> 2, path |-> <<<<4, 0>>, <<5, 1>>>>, arc |-> 1400],
        [source |-> 1, target |-> 3, path |-> <<<<4, 0>>, <<5, 0 - 1>>>>, arc |-> 1400],
        [source |-> 1, target |-> 2, path |-> <<<<4, 0>>, <<5, 1>>>>, arc |-> 1400],
        [source |-> 1, target |-> 3, path |-> <<<<4, 0>>, <<5, 0 - 1>>>>, arc |-> 1400] >>]

\* G5: three rows; the transition from row 2 to row 3 lies beyond both
\* transitions from row 1 to row 2, and the longer of those two curves is
\* the one listed first.
Graph5 ==
    [segments |-> <<
        [sp |-> <<0, 0>>, ep |-> <<6, 0>>,
         forward_transitions |-> <<1, 2>>, backward_transitions |-> << >>],
        [sp |-> <<0, 2>>, ep |-> <<6, 2>>,
         forward_transitions |-> <<3>>, backward_transitions |-> <<4, 5>>],
        [sp |-> <<0, 4>>, ep |-> <<6, 4>>,
         forward_transitions |-> << >>, backward_transitions |-> <<6>>] >>,
     transitions |-> <<
        [source |-> 1, target |-> 2, path |-> <<<<2, 0>>, <<2, 1>>, <<2, 2>>>>, arc |-> 6000],
        [source |-> 1, target |-> 2, path |-> <<<<0, 0>>, <<0, 1>>, <<0, 2>>>>, arc |-> 2000],
        [source |-> 2, target |-> 3, path |-> <<<<6, 2>>, <<6, 3>>, <<6, 4>>>>, arc |-> 3000],
        [source |-> 1, target |-> 2, path |-> <<<<2, 0>>, <<2, 1>>, <<2, 2>>>>, arc |-> 6000],
        [source |-> 1, target |-> 2, path |-> <<<<0, 0>>, <<0, 1>>, <<0, 2>>>>, arc |-> 2000],
        [source |-> 2, target |-> 3, path |-> <<<<6, 2>>, <<6, 3>>, <<6, 4>>>>, arc |-> 3000] >>]

Graphs == <<Graph1, Graph2, Graph3, Graph4, Graph5>>

\* nearestPointTo() answers offered by the course generator for each segment
\* of each graph (points on the segment's line)
Projections ==
    << << {<<0, 0>>, <<2, 0>>}, {<<5, 2>>, <<5, 4>>}, {<<2, 6>>} >>,
       << {<<0, 0>>, <<2, 0>>}, {<<3, 2>>, <<6, 2>>} >>,
       << {<<0, 0>>, <<3, 0>>}, {<<2, 2>>}, {<<2, 4>>, <<6, 4>>} >>,
       << {<<1, 0>>}, {<<5, 3>>}, {<<5, 0 - 2>>} >>,
       << {<<3, 0>>}, {<<3, 2>>}, {<<0, 4>>} >> >>

\* ------------------------------------------------------------------ state
VARIABLES
    graph,           \* generator_: the course graph the instance was built on
    calls,           \* findPath requests started so far
    pc,              \* position of the running findPath
    req,             \* the request: what the collaborators answer during it
    log,             \* collaborator calls and steps made by the request
    start_appendix, end_appendix,
    start_segment, end_segment, start_pt, end_pt,
    nodes,           \* std::map<const Transition*, Node>
    queue,           \* the std::set frontier, in iteration order
    current_node,    \* the Node taken from the frontier
    pending,         \* transitions of the inner loops not relaxed yet
    min_cost, best_path,
    candidates,      \* candidates finalized by the running search
    nodes_at_call,   \* nodes when the request started
    turn_cost,       \* per Node: the part of its cost that is turning surcharge
    result           \* what findPath returned

vars == <<graph, calls, pc, req, log, start_appendix, end_appendix,
          start_segment, end_segment, start_pt, end_pt, nodes, queue,
          current_node, pending, min_cost, best_path, candidates,
          nodes_at_call, turn_cost, result>>

Segments == Graphs[graph].segments
Transitions == Graphs[graph].transitions
SegmentIds == 1..Len(Segments)
TransitionIds == 1..Len(Transitions)

\* Transition::arc_length()
arc_length(t) == Transitions[t].arc

\* ---------------------------------------------------------------- requests
\* grid poses returned by the appendix pathfinders
GridPathNoTurn == << [x |-> 0, y |-> 0, theta |-> 0], [x |-> 1, y |-> 0, theta |-> 0] >>
GridPathTurn == << [x |-> 0, y |-> 1, theta |-> 90000], [x |-> 1, y |-> 1, theta |-> 0] >>

\* a segment and the projection of a pose onto it
Landing(s, p) == [seg |-> s, pt |-> p]
NoLanding == Landing(NoSegment, <<0, 0>>)
Landings(g) ==
    UNION { { Landing(s, p) : p \in Projections[g][s] } : s \in 1..Len(Graphs[g].segments) }
BaseLanding(g) == CHOOSE l \in Landings(g) : l.seg = 1

Request(ok, sn, st, sl, en, et, el) ==
    [map_ok |-> ok,
     start_noturn |-> sn, start_turn |-> st, start_closest |-> sl.seg, start_near |-> sl.pt,
     end_noturn |-> en, end_turn |-> et, end_closest |-> el.seg, end_near |-> el.pt]

\* The requests served: every pair of landings with both poses connected
\* without turning, and on a base start landing every other answer of the
\* map provider, the pathfinders and the closest-segment lookup.  Answers
\* that the request never asks for are left empty.
Requests(g) ==
    { Request(TRUE, GridPathNoTurn, << >>, sl, GridPathNoTurn, << >>, el) :
        sl \in Landings(g), el \in Landings(g) }
    \cup { Request(FALSE, << >>, << >>, NoLanding, << >>, << >>, NoLanding) }
    \cup { Request(TRUE, << >>, << >>, NoLanding, << >>, << >>, NoLanding) }
    \cup { Request(TRUE, GridPathNoTurn, << >>, NoLanding, << >>, << >>, NoLanding),
           Request(TRUE, << >>, GridPathTurn, NoLanding, << >>, << >>, NoLanding) }
    \cup { Request(TRUE, << >>, GridPathTurn, BaseLanding(g), << >>, << >>, NoLanding) }
    \cup { Request(TRUE, << >>, GridPathTurn, BaseLanding(g), GridPathNoTurn, << >>, NoLanding),
           Request(TRUE, << >>, GridPathTurn, BaseLanding(g), << >>, GridPathTurn, NoLanding) }
    \cup { Request(TRUE, << >>, GridPathTurn, BaseLanding(g), << >>, GridPathTurn, el) :
        el \in Landings(g) }
    \cup { Request(TRUE, << >>, GridPathTurn, BaseLanding(g), GridPathNoTurn, << >>, el) :
        el \in Landings(g) }


\* ------------------------------------------------------------ coordinates
\* convertToWorld: cell2pointSubPixel of a grid pose (resolution 1, origin 0)
convertToWorld(node) == [x |-> 1000 * node.x, y |-> 1000 * node.y, theta |-> node.theta]

\* ------------------------------------------------------ points on segments
\* These take the Node map ns explicitly, because the search evaluates them
\* between the writes of one loop iteration.
findStartPointOnNextSegment(ns, n) ==
    IF ns[n].next_segment = start_segment
    THEN start_pt
    ELSE IF ns[n].curve_forward
         THEN Last(Transitions[n].path)
         ELSE Transitions[n].path[1]

\* findEndPointOnSegment(node, transition): the direction flag is node's
findEndPointOnSegment(ns, n, t) ==
    IF ns[n].curve_forward
    THEN Transitions[t].path[1]
    ELSE Last(Transitions[t].path)

findEndPointOnNextSegment(ns, n) ==
    IF ns[n].next_segment = end_segment
    THEN end_pt
    ELSE IF ns[n].next = NoNode
         THEN IF ns[n].curve_forward
              THEN Segments[ns[n].next_segment].ep
              ELSE Segments[ns[n].next_segment].sp
         ELSE findEndPointOnSegment(ns, ns[n].next, ns[n].next)

isSegmentForward(segment, pos, target) ==
    Dot(Vec(Segments[segment].sp, Segments[segment].ep), Vec(pos, target)) >= 0

isStartSegmentForward(ns, n) ==
    isSegmentForward(start_segment, start_pt, findEndPointOnSegment(ns, n, n))

isNextSegmentForward(ns, n) ==
    isSegmentForward(ns[n].next_segment, findStartPointOnNextSegment(ns, n),
                     findEndPointOnNextSegment(ns, n))

isPreviousSegmentForward(ns, n) ==
    IF ns[n].prev # NoNode
    THEN isNextSegmentForward(ns, ns[n].prev)
    ELSE isStartSegmentForward(ns, n)

effectiveLengthOfNextSegment(ns, n) ==
    Norm(Vec(findEndPointOnNextSegment(ns, n), findStartPointOnNextSegment(ns, n)))

\* -------------------------------------------------------------- cost model
\* backward_penalty_factor * x
BackwardCost(x) == RoundDiv(backward_penalty_factor * x, 10)

\* calculateStraightCost charging a backward movement like a forward one
calculateStraightCost_NoPenalty(ns, n, start_point_on_segment, end_point_on_segment) ==
    LET segment_forward ==
            isSegmentForward(ns[n].next_segment, start_point_on_segment, end_point_on_segment)
        straight == Norm(Vec(start_point_on_segment, end_point_on_segment))
        prev_segment_forward == isPreviousSegmentForward(ns, n)
    IN  IF prev_segment_forward # segment_forward
        THEN straight + turning_straight_segment + turning_penalty
        ELSE IF segment_forward # ns[n].curve_forward
             THEN straight + 2 * turning_straight_segment + 2 * turning_penalty
             ELSE straight

calculateStraightCost(ns, n, start_point_on_segment, end_point_on_segment) ==
    LET segment_forward == isSegmentForward(ns[n].next_segment,
                               start_point_on_segment, end_point_on_segment)
        distance_to_end == Norm(Vec(start_point_on_segment, end_point_on_segment))
        straight == IF segment_forward THEN distance_to_end
                    ELSE BackwardCost(distance_to_end)
        prev_segment_forward == isPreviousSegmentForward(ns, n)
    IN  IF prev_segment_forward # segment_forward
        THEN straight + turning_straight_segment + turning_penalty
        ELSE IF segment_forward # ns[n].curve_forward
             THEN straight + 2 * turning_straight_segment + 2 * turning_penalty
             ELSE straight

\* lines 379-389: what calculateStraightCost adds to the distance cost
TurnSurcharge(ns, n, start_point_on_segment, end_point_on_segment) ==
    LET segment_forward ==
            isSegmentForward(ns[n].next_segment, start_point_on_segment, end_point_on_segment)
        prev_segment_forward == isPreviousSegmentForward(ns, n)
    IN  IF prev_segment_forward # segment_forward
        THEN turning_straight_segment + turning_penalty
        ELSE IF segment_forward # ns[n].curve_forward
             THEN 2 * turning_straight_segment + 2 * turning_penalty
             ELSE 0

calculateCurveCost(ns, n) ==
    IF ns[n].curve_forward
    THEN arc_length(n)
    ELSE BackwardCost(arc_length(n))

\* ------------------------------------------------------------------- combine
\* combine looking at the start appendix only
combine_StartOnly(start, centre, end) ==
    IF start = << >>
    THEN centre
    ELSE start \o centre \o end

combine(start, centre, end) ==
    IF start = << >> /\ end = << >>
    THEN centre
    ELSE start \o centre \o end


\* ----------------------------------------------------------- path assembler
\* heading of a segment's line: atan2 of endPoint() - startPoint()
SegmentYaw(segment) ==
    Atan2(Segments[segment].ep[2] - Segments[segment].sp[2],
          Segments[segment].ep[1] - Segments[segment].sp[1])

\* insertFirstNode with the heading copied from insertLastNode
insertFirstNode_EndHeading(res) == Append(res, PathPose(start_pt, SegmentYaw(end_segment)))

insertFirstNode(res) == Append(res, PathPose(start_pt, SegmentYaw(start_segment)))

\* insertLastNode with the position copied from insertFirstNode
insertLastNode_AtStart(res) == Append(res, PathPose(start_pt, SegmentYaw(end_segment)))

insertLastNode(res) == Append(res, PathPose(end_pt, SegmentYaw(end_segment)))

\* a pose turning_straight_segment away from pt along heading c_yaw
StubPose(pt, c_yaw) ==
    [x |-> 1000 * pt[1] + Rotated(turning_straight_segment, c_yaw)[1],
     y |-> 1000 * pt[2] + Rotated(turning_straight_segment, c_yaw)[2],
     theta |-> c_yaw]

extendAlongTargetSegment(res, n) ==
    Append(res, StubPose(Last(Transitions[n].path), SegmentYaw(Transitions[n].target)))

extendAlongSourceSegment(res, n) ==
    Append(res, StubPose(Transitions[n].path[1], SegmentYaw(Transitions[n].source) + 180000))

\* the value of a double that is not a number
NaN == 0 - 999999

\* dir.norm() is taken in quarters of a thousandth (the root of 16 times
\* the squared length), which keeps the rounding of the offset under one unit
extendWithStraightTurningSegment(res, pt) ==
    LET dx == 1000 * pt[1] - Last(res).x
        dy == 1000 * pt[2] - Last(res).y
        norm == ISqrt(16 * (dx * dx + dy * dy))
    IN  IF norm = 0
        THEN Append(res, [x |-> NaN, y |-> NaN, theta |-> 0])
        ELSE Append(res,
                 [x |-> 1000 * pt[1] + RoundDiv(4 * dx * turning_straight_segment, norm),
                  y |-> 1000 * pt[2] + RoundDiv(4 * dy * turning_straight_segment, norm),
                  theta |-> Atan2(dy, dx)])

\* the poses of one rendered curve
CurvePoses(ns, n) ==
    LET path == Transitions[n].path
        m == Len(path)
    IN  IF ns[n].curve_forward
        THEN [k \in 1..(m - 1) |->
                PathPose(path[k + 1],
                         Atan2(path[k + 1][2] - path[k][2], path[k + 1][1] - path[k][1]))]
        ELSE [k \in 1..(m - 1) |->
                PathPose(path[m - k],
                         Atan2(path[m - k][2] - path[m - k + 1][2],
                               path[m - k][1] - path[m - k + 1][1]))]

\* insertCurveSegment starting at the first point of the traversal, whose
\* heading is taken from the step that follows it
insertCurveSegment_FromFirstPoint(res, ns, n) ==
    res \o <<[CurvePoses(ns, n)[1] EXCEPT
                 !.x = 1000 * (IF ns[n].curve_forward THEN Transitions[n].path[1]
                             ELSE Last(Transitions[n].path))[1],
                 !.y = 1000 * (IF ns[n].curve_forward THEN Transitions[n].path[1]
                             ELSE Last(Transitions[n].path))[2]]>>
        \o CurvePoses(ns, n)

insertCurveSegment(res, ns, n) == res \o CurvePoses(ns, n)

\* the loop body of generatePath with the curve always ahead of the stub of a
\* reversal
insertHop_CurveFirst(res, ns, n, segment_forward) ==
    LET next_segment_forward == isNextSegmentForward(ns, n)
        curve_forward == ns[n].curve_forward
    IN  IF effectiveLengthOfNextSegment(ns, n) = 0
        THEN insertCurveSegment(res, ns, n)
        ELSE IF next_segment_forward = segment_forward
        THEN IF curve_forward = next_segment_forward
             THEN insertCurveSegment(res, ns, n)
             ELSE LET stub == extendWithStraightTurningSegment(res,
                                 IF curve_forward THEN Transitions[n].path[1]
                                 ELSE Last(Transitions[n].path))
                      curve == insertCurveSegment(stub, ns, n)
                  IN  IF curve_forward
                      THEN extendAlongTargetSegment(curve, n)
                      ELSE extendAlongSourceSegment(curve, n)
        ELSE IF segment_forward
        THEN extendAlongTargetSegment(insertCurveSegment(res, ns, n), n)
        ELSE extendAlongSourceSegment(insertCurveSegment(res, ns, n), n)

\* what one iteration of generatePath's loop appends for Node n
insertHop(res, ns, n, segment_forward) ==
    LET next_segment_forward == isNextSegmentForward(ns, n)
        curve_forward == ns[n].curve_forward
    IN  IF effectiveLengthOfNextSegment(ns, n) = 0
        THEN insertCurveSegment(res, ns, n)
        ELSE IF next_segment_forward = segment_forward
        THEN IF curve_forward = next_segment_forward
             THEN insertCurveSegment(res, ns, n)
             ELSE LET stub == extendWithStraightTurningSegment(res,
                                 IF curve_forward THEN Transitions[n].path[1]
                                 ELSE Last(Transitions[n].path))
                      curve == insertCurveSegment(stub, ns, n)
                  IN  IF curve_forward
                      THEN extendAlongTargetSegment(curve, n)
                      ELSE extendAlongSourceSegment(curve, n)
        ELSE IF segment_forward
        THEN IF curve_forward
             THEN extendAlongTargetSegment(insertCurveSegment(res, ns, n), n)
             ELSE insertCurveSegment(extendAlongTargetSegment(res, n), ns, n)
        ELSE IF curve_forward
             THEN insertCurveSegment(extendAlongSourceSegment(res, n), ns, n)
             ELSE extendAlongSourceSegment(insertCurveSegment(res, ns, n), n)

\* segment_forward after the iteration for Node n
hopDirection(ns, n, segment_forward) ==
    IF effectiveLengthOfNextSegment(ns, n) = 0
    THEN segment_forward
    ELSE isNextSegmentForward(ns, n)

RECURSIVE generatePathLoop(_, _, _, _, _)
generatePathLoop(ns, path_transitions, i, res, segment_forward) ==
    IF i > Len(path_transitions)
    THEN res
    ELSE generatePathLoop(ns, path_transitions, i + 1,
             insertHop(res, ns, path_transitions[i], segment_forward),
             hopDirection(ns, path_transitions[i], segment_forward))

generatePath(ns, path_transitions, res) ==
    insertLastNode(
        generatePathLoop(ns, path_transitions, 1, insertFirstNode(res),
                         isStartSegmentForward(ns, path_transitions[1])))


\* ------------------------------------------------------------ the frontier
\* std::set<Node*, comp>.  comp orders Nodes by cost alone, and the search
\* writes a Node's cost while the Node is in the set, so the set's order can
\* be broken.  The frontier is kept as its iteration order (a sequence of
\* Nodes); a lookup descends the set's search tree, comparing the key with
\* one element at a time.  The shape of the tree is not determined by the
\* iteration order, so a descent may visit any element of its range first:
\* on an ordered frontier every choice gives the same answer, on a broken one
\* the lookups return every answer some tree shape gives.
comp(lhs_cost, rhs_cost) == lhs_cost < rhs_cost

Costs(ns, q) == [i \in 1..Len(q) |-> ns[q[i]].cost]

\* lower_bound: first position not ordered before k, res if there is none
RECURSIVE LowerBounds(_, _, _, _, _)
LowerBounds(cs, k, lo, hi, res) ==
    IF lo > hi
    THEN {res}
    ELSE UNION { IF ~comp(cs[p], k)
                 THEN LowerBounds(cs, k, lo, p - 1, p)
                 ELSE LowerBounds(cs, k, p + 1, hi, res) : p \in lo..hi }

\* upper_bound: first position ordered after k, res if there is none
RECURSIVE UpperBounds(_, _, _, _, _)
UpperBounds(cs, k, lo, hi, res) ==
    IF lo > hi
    THEN {res}
    ELSE UNION { IF comp(k, cs[p])
                 THEN UpperBounds(cs, k, lo, p - 1, p)
                 ELSE UpperBounds(cs, k, p + 1, hi, res) : p \in lo..hi }

\* equal_range: <<first, last>> positions of the elements equivalent to k
RECURSIVE EqualRanges(_, _, _, _, _)
EqualRanges(cs, k, lo, hi, y) ==
    IF lo > hi
    THEN {<<y, y>>}
    ELSE UNION { IF comp(cs[p], k)
                 THEN EqualRanges(cs, k, p + 1, hi, y)
                 ELSE IF comp(k, cs[p])
                 THEN EqualRanges(cs, k, lo, p - 1, p)
                 ELSE { <<l, u>> : l \in LowerBounds(cs, k, lo, p - 1, p),
                                   u \in UpperBounds(cs, k, p + 1, hi, y) }
               : p \in lo..hi }

\* the gap (number of elements before it) where an insert's descent ends
RECURSIVE InsertGaps(_, _, _, _)
InsertGaps(cs, k, lo, hi) ==
    IF lo > hi
    THEN {lo - 1}
    ELSE UNION { IF comp(k, cs[p])
                 THEN InsertGaps(cs, k, lo, p - 1)
                 ELSE InsertGaps(cs, k, p + 1, hi) : p \in lo..hi }

\* queue.find(n) != queue.end(): the answers the set can give
QueueFinds(ns, q, n) ==
    LET cs == Costs(ns, q)
        k == ns[n].cost
    IN  { j <= Len(q) /\ ~comp(k, cs[j]) : j \in LowerBounds(cs, k, 1, Len(q), Len(q) + 1) }

\* queue.erase(n): erases the equal_range of n's cost
QueueErases(ns, q, n) ==
    LET cs == Costs(ns, q)
    IN  { SubSeq(q, 1, r[1] - 1) \o SubSeq(q, r[2], Len(q)) :
            r \in EqualRanges(cs, ns[n].cost, 1, Len(q), Len(q) + 1) }

\* queue.insert(n): nothing is inserted when the element before the gap is
\* not ordered before n
QueueInserts(ns, q, n) ==
    LET cs == Costs(ns, q)
        k == ns[n].cost
    IN  { IF g = 0 \/ comp(cs[g], k)
          THEN SubSeq(q, 1, g) \o <<n>> \o SubSeq(q, g + 1, Len(q))
          ELSE q : g \in InsertGaps(cs, k, 1, Len(q)) }

\* lines 109-112: find, erase when found, insert
QueueReinserts(ns, q, n) ==
    UNION { IF found
            THEN UNION { QueueInserts(ns, e, n) : e \in QueueErases(ns, q, n) }
            ELSE QueueInserts(ns, q, n) : found \in QueueFinds(ns, q, n) }

\* ------------------------------------------------------------------- nodes
\* a default-constructed Node bound to its transition
NewNode(curve_forward, next_segment) ==
    [curve_forward |-> curve_forward, next_segment |-> next_segment,
     cost |-> Infinity, prev |-> NoNode, next |-> NoNode]

SeqToSet(s) == { s[i] : i \in 1..Len(s) }

ForwardListed == UNION { SeqToSet(Segments[s].forward_transitions) : s \in SegmentIds }
BackwardListed == UNION { SeqToSet(Segments[s].backward_transitions) : s \in SegmentIds }

\* initNodes: the map after clear() and the loops over the segments in
\* order, forward list before backward list; the last write to a Node stays
LastListing(t) ==
    CHOOSE s \in SegmentIds :
        /\ t \in SeqToSet(Segments[s].forward_transitions \o Segments[s].backward_transitions)
        /\ \A s2 \in SegmentIds :
              t \in SeqToSet(Segments[s2].forward_transitions \o Segments[s2].backward_transitions)
                  => s2 <= s

initNodes ==
    [t \in ForwardListed \cup BackwardListed |->
        IF t \in SeqToSet(Segments[LastListing(t)].backward_transitions)
        THEN NewNode(FALSE, Transitions[t].source)
        ELSE NewNode(TRUE, Transitions[t].target)]

\* forward_transitions followed by backward_transitions (the i = 0, 1 loops)
TransitionsOf(segment) ==
    Segments[segment].forward_transitions \o Segments[segment].backward_transitions

\* enqueueStartingNodes: the <<nodes, queue>> pairs it can leave
RECURSIVE enqueueStartingNodes(_, _, _)
enqueueStartingNodes(ns, q, todo) ==
    IF todo = << >>
    THEN {<<ns, q>>}
    ELSE LET n == Head(todo)
             end_point_on_segment ==
                 IF ns[n].curve_forward THEN Transitions[n].path[1]
                 ELSE Last(Transitions[n].path)
             seeded == [ns EXCEPT ![n].cost =
                           calculateStraightCost(ns, n, start_pt, end_point_on_segment)]
         IN  UNION { enqueueStartingNodes(seeded, q2, Tail(todo)) :
                       q2 \in QueueInserts(seeded, q, n) }


\* ------------------------------------------------------ candidate finalization
\* the Nodes met walking prev from n, first Node of the chain first; the walk
\* of the code does not end when the links form a cycle
RECURSIVE ChainTo(_, _, _)
ChainTo(ns, n, seen) ==
    IF n = NoNode \/ n \in seen
    THEN << >>
    ELSE Append(ChainTo(ns, ns[n].prev, seen \cup {n}), n)

RECURSIVE PrevCycle(_, _, _)
PrevCycle(ns, n, seen) ==
    IF n = NoNode THEN FALSE
    ELSE IF n \in seen THEN TRUE
    ELSE PrevCycle(ns, ns[n].prev, seen \cup {n})

\* the chain walk without the assignment of line 419
RepairNext_Keep(ns, chain) == ns

\* lines 415-422: tmp->prev->next = tmp along the chain
RepairNext(ns, chain) ==
    [t \in DOMAIN ns |->
        IF \E i \in 1..(Len(chain) - 1) : chain[i] = t
        THEN [ns[t] EXCEPT !.next = chain[(CHOOSE i \in 1..(Len(chain) - 1) : chain[i] = t) + 1]]
        ELSE ns[t]]

\* generatePathCandidate without the comparison against min_cost
generatePathCandidate_NoMinimum(ns, n, mc, bp) ==
    LET additional_cost ==
            calculateStraightCost(ns, n, findStartPointOnNextSegment(ns, n), end_pt)
        total == ns[n].cost + additional_cost
        costed == [ns EXCEPT ![n].cost = total]
        chain == ChainTo(costed, n, {})
        linked == RepairNext(costed, chain)
    IN  [nodes |-> linked, min_cost |-> total,
         best_path |-> generatePath(linked, chain, << >>),
         total |-> total, chain |-> chain]

\* generatePathCandidate(node): the Node map, min_cost and best_path it leaves
generatePathCandidate(ns, n, mc, bp) ==
    LET additional_cost ==
            calculateStraightCost(ns, n, findStartPointOnNextSegment(ns, n), end_pt)
        total == ns[n].cost + additional_cost
        costed == [ns EXCEPT ![n].cost = total]
        chain == ChainTo(costed, n, {})
        linked == RepairNext(costed, chain)
    IN  IF total < mc
        THEN [nodes |-> linked, min_cost |-> total,
              best_path |-> generatePath(linked, chain, << >>),
              total |-> total, chain |-> chain]
        ELSE [nodes |-> costed, min_cost |-> mc, best_path |-> bp,
              total |-> total, chain |-> chain]


\* ------------------------------------------------------- appendix connector
\* findAppendix trying the turning-enabled pathfinder first
findAppendix_TurnFirst(noturn, turn, type) ==
    LET ran == IF turn = << >> THEN <<"turn:" \o type, "noturn:" \o type>>
               ELSE <<"turn:" \o type>>
        path_start == IF turn = << >> THEN noturn ELSE turn
    IN  [appendix |-> [i \in 1..Len(path_start) |-> convertToWorld(path_start[i])],
         ran |-> ran]

\* findAppendix: the appendix and the pathfinders it ran, in order
findAppendix(noturn, turn, type) ==
    LET ran == IF noturn = << >> THEN <<"noturn:" \o type, "turn:" \o type>>
               ELSE <<"noturn:" \o type>>
        path_start == IF noturn = << >> THEN turn ELSE noturn
    IN  [appendix |-> [i \in 1..Len(path_start) |-> convertToWorld(path_start[i])],
         ran |-> ran]

\* -------------------------------------------------------------------- Init
NoRequest == Request(FALSE, << >>, << >>, NoLanding, << >>, << >>, NoLanding)

Init ==
    /\ graph \in 1..Len(Graphs)
    /\ calls = 0
    /\ pc = "idle"
    /\ req = NoRequest
    /\ log = << >>
    /\ start_appendix = << >>
    /\ end_appendix = << >>
    /\ start_segment = NoSegment
    /\ end_segment = NoSegment
    /\ start_pt = <<0, 0>>
    /\ end_pt = <<0, 0>>
    /\ nodes = << >>
    /\ queue = << >>
    /\ current_node = NoNode
    /\ pending = << >>
    /\ min_cost = 0
    /\ best_path = << >>
    /\ candidates = << >>
    /\ nodes_at_call = << >>
    /\ turn_cost = << >>
    /\ result = << >>

\* ----------------------------------------------------------------- findPath
\* findPath going on after a failed map service call
FindPathMap_IgnoreFailure ==
    /\ pc \in {"idle", "returned"}
    /\ calls < MaxCalls
    /\ \E r \in Requests(graph) :
        /\ req' = r
        /\ log' = <<"getMap", "initMaps">>
        /\ pc' = "start_appendix"
        /\ result' = << >>
    /\ calls' = calls + 1
    /\ candidates' = << >>
    /\ nodes_at_call' = nodes
    /\ UNCHANGED <<turn_cost, graph, start_appendix, end_appendix, start_segment, end_segment,
                   start_pt, end_pt, nodes, queue, current_node, pending,
                   min_cost, best_path>>

\* lines 43-56: the map service call and initMaps
FindPathMap ==
    /\ pc \in {"idle", "returned"}
    /\ calls < MaxCalls
    /\ \E r \in Requests(graph) :
        /\ req' = r
        /\ IF r.map_ok
           THEN /\ log' = <<"getMap", "initMaps">>
                /\ pc' = "start_appendix"
                /\ result' = << >>
           ELSE /\ log' = <<"getMap">>
                /\ pc' = "returned"
                /\ result' = << >>
    /\ calls' = calls + 1
    /\ candidates' = << >>
    /\ nodes_at_call' = nodes
    /\ UNCHANGED <<turn_cost, graph, start_appendix, end_appendix, start_segment, end_segment,
                   start_pt, end_pt, nodes, queue, current_node, pending,
                   min_cost, best_path>>

\* findAppendices without the test of line 190
FindStartAppendix_NoCheck ==
    /\ pc = "start_appendix"
    /\ LET found == findAppendix(req.start_noturn, req.start_turn, "start")
       IN  /\ start_appendix' = found.appendix
           /\ log' = log \o found.ran \o <<"closest:start">>
           /\ start_segment' = req.start_closest
           /\ IF req.start_closest = NoSegment
              THEN /\ UNCHANGED start_pt
                   /\ \/ pc' = "crashed" /\ UNCHANGED result
                      \/ pc' = "returned" /\ result' = << >>
              ELSE /\ start_pt' = req.start_near
                   /\ pc' = "end_appendix"
                   /\ UNCHANGED result
    /\ UNCHANGED <<turn_cost, graph, calls, req, end_appendix, end_segment, end_pt, nodes, queue,
                   current_node, pending, min_cost, best_path, candidates, nodes_at_call>>

\* lines 189-200 (and 58-60 when findAppendices fails here)
FindStartAppendix ==
    /\ pc = "start_appendix"
    /\ LET found == findAppendix(req.start_noturn, req.start_turn, "start")
       IN  /\ start_appendix' = found.appendix
           /\ IF found.appendix = << >>
              THEN /\ log' = log \o found.ran
                   /\ pc' = "returned"
                   /\ result' = << >>
                   /\ UNCHANGED <<start_segment, start_pt>>
              ELSE /\ log' = log \o found.ran \o <<"closest:start">>
                   /\ start_segment' = req.start_closest
                   /\ IF req.start_closest = NoSegment
                      THEN \* line 196 reads through the null start_segment
                           /\ UNCHANGED start_pt
                           /\ \/ pc' = "crashed" /\ UNCHANGED result
                              \/ pc' = "returned" /\ result' = << >>
                      ELSE /\ start_pt' = req.start_near
                           /\ pc' = "end_appendix"
                           /\ UNCHANGED result
    /\ UNCHANGED <<turn_cost, graph, calls, req, end_appendix, end_segment, end_pt, nodes, queue,
                   current_node, pending, min_cost, best_path, candidates, nodes_at_call>>

\* lines 203-217 (and 58-60 when findAppendices fails here)
FindEndAppendix ==
    /\ pc = "end_appendix"
    /\ LET found == findAppendix(req.end_noturn, req.end_turn, "end")
       IN  IF found.appendix = << >>
           THEN /\ end_appendix' = << >>
                /\ log' = log \o found.ran
                /\ pc' = "returned"
                /\ result' = << >>
                /\ UNCHANGED <<end_segment, end_pt>>
           ELSE /\ end_appendix' = Reverse(found.appendix)
                /\ log' = log \o found.ran \o <<"closest:end">>
                /\ end_segment' = req.end_closest
                /\ IF req.end_closest = NoSegment
                   THEN \* line 211 reads through the null end_segment
                        /\ UNCHANGED end_pt
                        /\ \/ pc' = "crashed" /\ UNCHANGED result
                           \/ pc' = "returned" /\ result' = << >>
                   ELSE /\ end_pt' = req.end_near
                        /\ pc' = "found"
                        /\ UNCHANGED result
    /\ UNCHANGED <<turn_cost, graph, calls, req, start_appendix, start_segment, start_pt, nodes,
                   queue, current_node, pending, min_cost, best_path, candidates,
                   nodes_at_call>>

\* lines 63-68: both poses land on the same segment
FindPathSameSegment ==
    /\ pc = "found"
    /\ start_segment = end_segment
    /\ result' = combine(start_appendix, insertLastNode(insertFirstNode(<< >>)), end_appendix)
    /\ pc' = "returned"
    /\ UNCHANGED <<turn_cost, graph, calls, req, log, start_appendix, end_appendix, start_segment,
                   end_segment, start_pt, end_pt, nodes, queue, current_node, pending,
                   min_cost, best_path, candidates, nodes_at_call>>

\* ------------------------------------------------------ performDijkstraSearch
\* lines 75-81: initNodes, the frontier, enqueueStartingNodes, min_cost
SearchStart ==
    /\ pc = "found"
    /\ start_segment # end_segment
    /\ \E seeded \in enqueueStartingNodes(initNodes, << >>, TransitionsOf(start_segment)) :
        /\ nodes' = seeded[1]
        /\ queue' = seeded[2]
    /\ turn_cost' = [t \in DOMAIN initNodes |->
                        IF t \in SeqToSet(TransitionsOf(start_segment))
                        THEN TurnSurcharge(initNodes, t, start_pt,
                                 IF initNodes[t].curve_forward THEN Transitions[t].path[1]
                                 ELSE Last(Transitions[t].path))
                        ELSE 0]
    /\ min_cost' = Infinity
    /\ log' = Append(log, "search")
    /\ current_node' = NoNode
    /\ pending' = << >>
    /\ pc' = "loop"
    /\ UNCHANGED <<graph, calls, req, start_appendix, end_appendix, start_segment,
                   end_segment, start_pt, end_pt, best_path, candidates, nodes_at_call,
                   result>>

\* the loop leaving a Node it expands in the frontier (no erase at line 85)
Dequeue_KeepExpanded ==
    /\ pc = "loop"
    /\ queue # << >>
    /\ LET n == Head(queue)
       IN  /\ current_node' = n
           /\ queue' = IF nodes[n].next_segment = end_segment THEN Tail(queue) ELSE queue
           /\ IF nodes[n].next_segment = end_segment
              THEN IF PrevCycle(nodes, n, {})
                   THEN \* line 407 has run when the walk of lines 409-422 starts
                        /\ pc' = "hung"
                        /\ nodes' = [nodes EXCEPT ![n].cost = nodes[n].cost
                               + calculateStraightCost(nodes, n,
                                     findStartPointOnNextSegment(nodes, n), end_pt)]
                        /\ UNCHANGED <<min_cost, best_path, candidates, pending,
                                       turn_cost>>
                   ELSE LET c == generatePathCandidate(nodes, n, min_cost, best_path)
                            turning == turn_cost[n]
                                + TurnSurcharge(nodes, n, findStartPointOnNextSegment(nodes, n),
                                                end_pt)
                        IN  /\ nodes' = c.nodes
                            /\ min_cost' = c.min_cost
                            /\ best_path' = c.best_path
                            /\ turn_cost' = [turn_cost EXCEPT ![n] = turning]
                            /\ candidates' = Append(candidates,
                                   [node |-> n, total |-> c.total, chain |-> c.chain,
                                    turning |-> turning])
                            /\ pc' = "loop"
                            /\ UNCHANGED pending
              ELSE /\ pending' = TransitionsOf(nodes[n].next_segment)
                   /\ pc' = IF TransitionsOf(nodes[n].next_segment) = << >>
                            THEN "loop" ELSE "relax"
                   /\ UNCHANGED <<nodes, min_cost, best_path, candidates, turn_cost>>
    /\ UNCHANGED <<graph, calls, req, log, start_appendix, end_appendix, start_segment,
                   end_segment, start_pt, end_pt, nodes_at_call, result>>

\* lines 83-91: take the first Node of the frontier; finalize a candidate when
\* it leads to the end segment, otherwise start the loops over its neighbours
Dequeue ==
    /\ pc = "loop"
    /\ queue # << >>
    /\ LET n == Head(queue)
       IN  /\ current_node' = n
           /\ queue' = Tail(queue)
           /\ IF nodes[n].next_segment = end_segment
              THEN IF PrevCycle(nodes, n, {})
                   THEN \* line 407 has run when the walk of lines 409-422 starts
                        /\ pc' = "hung"
                        /\ nodes' = [nodes EXCEPT ![n].cost = nodes[n].cost
                               + calculateStraightCost(nodes, n,
                                     findStartPointOnNextSegment(nodes, n), end_pt)]
                        /\ UNCHANGED <<min_cost, best_path, candidates, pending,
                                       turn_cost>>
                   ELSE LET c == generatePathCandidate(nodes, n, min_cost, best_path)
                            turning == turn_cost[n]
                                + TurnSurcharge(nodes, n, findStartPointOnNextSegment(nodes, n),
                                                end_pt)
                        IN  /\ nodes' = c.nodes
                            /\ min_cost' = c.min_cost
                            /\ best_path' = c.best_path
                            /\ turn_cost' = [turn_cost EXCEPT ![n] = turning]
                            /\ candidates' = Append(candidates,
                                   [node |-> n, total |-> c.total, chain |-> c.chain,
                                    turning |-> turning])
                            /\ pc' = "loop"
                            /\ UNCHANGED pending
              ELSE /\ pending' = TransitionsOf(nodes[n].next_segment)
                   /\ pc' = IF TransitionsOf(nodes[n].next_segment) = << >>
                            THEN "loop" ELSE "relax"
                   /\ UNCHANGED <<nodes, min_cost, best_path, candidates, turn_cost>>
    /\ UNCHANGED <<graph, calls, req, log, start_appendix, end_appendix, start_segment,
                   end_segment, start_pt, end_pt, nodes_at_call, result>>

\* new_cost of lines 98-101 for the neighbour on next_transition
RelaxedCost(ns, cur, next_transition) ==
    ns[cur].cost + calculateCurveCost(ns, cur)
        + calculateStraightCost(ns, cur, findStartPointOnNextSegment(ns, cur),
                                findEndPointOnSegment(ns, cur, next_transition))

\* lines 95-114: one iteration of the inner loop
Relax ==
    /\ pc = "relax"
    /\ pending # << >>
    /\ LET neighbor == Head(pending)
           new_cost == RelaxedCost(nodes, current_node, neighbor)
           relaxed == [nodes EXCEPT ![neighbor].prev = current_node,
                                    ![current_node].next = neighbor,
                                    ![neighbor].cost = new_cost]
       IN  IF new_cost < nodes[neighbor].cost
           THEN /\ nodes' = relaxed
                /\ queue' \in QueueReinserts(relaxed, queue, neighbor)
                /\ turn_cost' = [turn_cost EXCEPT ![neighbor] = turn_cost[current_node]
                      + TurnSurcharge(nodes, current_node,
                                      findStartPointOnNextSegment(nodes, current_node),
                                      findEndPointOnSegment(nodes, current_node, neighbor))]
           ELSE UNCHANGED <<nodes, queue, turn_cost>>
    /\ pending' = Tail(pending)
    /\ pc' = IF Tail(pending) = << >> THEN "loop" ELSE "relax"
    /\ UNCHANGED <<graph, calls, req, log, start_appendix, end_appendix, start_segment,
                   end_segment, start_pt, end_pt, current_node, min_cost, best_path,
                   candidates, nodes_at_call, result>>

\* line 118: the frontier is empty
SearchReturn ==
    /\ pc = "loop"
    /\ queue = << >>
    /\ result' = combine(start_appendix, best_path, end_appendix)
    /\ pc' = "returned"
    /\ UNCHANGED <<turn_cost, graph, calls, req, log, start_appendix, end_appendix, start_segment,
                   end_segment, start_pt, end_pt, nodes, queue, current_node, pending,
                   min_cost, best_path, candidates, nodes_at_call>>

Next ==
    \/ FindPathMap
    \/ FindStartAppendix
    \/ FindEndAppendix
    \/ FindPathSameSegment
    \/ SearchStart
    \/ Dequeue
    \/ Relax
    \/ SearchReturn

Spec == Init /\ [][Next]_vars


\* ------------------------------------------------------------------ claims
\* the running or last request went into performDijkstraSearch
Searched == log # << >> /\ Last(log) = "search"

\* the world poses of a pathfinder answer
WorldPath(path) == [i \in 1..Len(path) |-> convertToWorld(path[i])]

\* the pose sequence generatePath assembles for a chain of Nodes whose forward
\* links follow the chain
PathOfChain(chain) == generatePath(RepairNext(initNodes, chain), chain, << >>)

\* C1: a request whose start and end segments differ and whose search
\* finalizes no candidate returns an empty pose sequence.
C1_NoCandidateReturnsEmpty ==
    (pc = "returned" /\ Searched /\ candidates = << >>) => result = << >>

\* C2: the search runs until the frontier is empty; when it returns,
\* min_cost is at most the total of every finalized candidate and best_path
\* is the path assembled from a candidate whose total is min_cost.
C2_DeferredTermination ==
    (pc = "returned" /\ Searched) =>
        /\ queue = << >>
        /\ \A i \in 1..Len(candidates) : min_cost <= candidates[i].total
        /\ candidates # << >> =>
              \E i \in 1..Len(candidates) :
                  /\ candidates[i].total = min_cost
                  /\ best_path = PathOfChain(candidates[i].chain)

\* a search that finalized a candidate and later a cheaper one
C2_Witness ==
    /\ pc = "returned" /\ Searched
    /\ Len(candidates) >= 2
    /\ candidates[2].total < candidates[1].total
    /\ best_path = PathOfChain(candidates[2].chain)

\* C3: a request on a used instance returns what it returns on a fresh one:
\* when its search starts, best_path is empty as after construction, and the
\* centre of its result is the path of its own best candidate, empty when it
\* finalized none.
C3_NoStateSurvives ==
    /\ (pc = "loop" /\ candidates = << >>) => best_path = << >>
    /\ (pc = "returned" /\ Searched) =>
          result = combine(start_appendix,
                           IF candidates = << >> THEN << >> ELSE best_path,
                           end_appendix)

\* the closest-segment lookup of the running or last request returned none
ClosestMissing ==
    \/ (\E i \in 1..Len(log) : log[i] = "closest:start") /\ req.start_closest = NoSegment
    \/ (\E i \in 1..Len(log) : log[i] = "closest:end") /\ req.end_closest = NoSegment

\* C4: when findClosestSegment returns none for a found appendix endpoint,
\* findPath returns an empty pose sequence, without using the missing
\* segment and without running the search.
C4_MissingSegmentAbortsCleanly ==
    ClosestMissing => pc = "returned" /\ result = << >> /\ ~Searched

\* C5: when the map provider call fails, findPath returns an empty pose
\* sequence and does nothing else: no collision map, no pathfinder, no
\* closest-segment lookup, no search.
C5_MapFailure ==
    (pc # "idle" /\ ~req.map_ok) =>
        pc = "returned" /\ result = << >> /\ log = <<"getMap">>

\* a failed map call on an instance that holds a path from an earlier request
C5_Witness ==
    pc = "returned" /\ ~req.map_ok /\ calls = 2 /\ best_path # << >> /\ log = <<"getMap">>

\* C6: when both pathfinders return no path for the start pose, findPath
\* returns an empty pose sequence without the end-pose connection, any
\* closest-segment lookup or the search.
C6_StartConnectorFails ==
    (pc \notin {"idle", "start_appendix"} /\ req.map_ok
        /\ req.start_noturn = << >> /\ req.start_turn = << >>) =>
        /\ pc = "returned"
        /\ result = << >>
        /\ log = <<"getMap", "initMaps", "noturn:start", "turn:start">>

\* both start pathfinders failed on an instance that holds an earlier path
C6_Witness ==
    /\ pc = "returned" /\ req.map_ok /\ req.start_noturn = << >> /\ req.start_turn = << >>
    /\ calls = 2 /\ best_path # << >>
    /\ log = <<"getMap", "initMaps", "noturn:start", "turn:start">>

\* the pathfinders the request ran for one pose, in order
RanFor(type) ==
    SelectSeq(log, LAMBDA e : e = "noturn:" \o type \/ e = "turn:" \o type)

AppendixOrder(type, noturn, turn, appendix) ==
    RanFor(type) # << >> =>
        /\ RanFor(type)[1] = "noturn:" \o type
        /\ (noturn = << >>) <=> (RanFor(type) = <<"noturn:" \o type, "turn:" \o type>>)
        /\ (noturn # << >>) <=> (RanFor(type) = <<"noturn:" \o type>>)
        /\ (appendix = << >>) <=> (noturn = << >> /\ turn = << >>)

\* C7: for each pose findAppendix runs the no-turning pathfinder first, the
\* turning-enabled one after it exactly when the first returned no path, and
\* the appendix is empty exactly when both returned no path.
C7_NoTurnFirst ==
    /\ AppendixOrder("start", req.start_noturn, req.start_turn, start_appendix)
    /\ AppendixOrder("end", req.end_noturn, req.end_turn, end_appendix)

\* a request that connected the start pose only with turning and the end
\* pose without
C7_Witness ==
    /\ pc = "returned" /\ result # << >>
    /\ RanFor("start") = <<"noturn:start", "turn:start">>
    /\ start_appendix = WorldPath(GridPathTurn)
    /\ RanFor("end") = <<"noturn:end">>
    /\ end_appendix # << >>

\* C8: with both appendices found and the start segment equal to the end
\* segment, findPath returns the start appendix, the pose at the start point,
\* the pose at the end point and the reversed end-pathfinder output, and runs
\* no search: no Node is created, enqueued or relaxed.
C8_SameSegment ==
    (pc = "returned" /\ (\E i \in 1..Len(log) : log[i] = "closest:end")
        /\ req.end_closest # NoSegment /\ req.start_closest = req.end_closest) =>
        /\ result =
              WorldPath(IF req.start_noturn # << >> THEN req.start_noturn
                        ELSE req.start_turn)
              \o << PathPose(req.start_near, SegmentYaw(req.start_closest)),
                    PathPose(req.end_near, SegmentYaw(req.end_closest)) >>
              \o Reverse(WorldPath(IF req.end_noturn # << >> THEN req.end_noturn
                                   ELSE req.end_turn))
        /\ ~Searched
        /\ nodes = nodes_at_call
        /\ queue = << >>
        /\ candidates = << >>

\* two different points of one segment, on an instance whose Nodes are left
\* from an earlier search
C8_Witness ==
    /\ pc = "returned" /\ (\E i \in 1..Len(log) : log[i] = "closest:end")
    /\ req.end_closest # NoSegment /\ req.start_closest = req.end_closest
    /\ req.start_near # req.end_near
    /\ nodes # << >>
    /\ Len(result) = 6

\* a step of a running search leaves no Node with a higher finite cost
CostsNotIncreased ==
    pc \in {"loop", "relax"} =>
        \A t \in DOMAIN nodes :
            nodes[t].cost < Infinity => nodes'[t].cost <= nodes[t].cost

\* C9: during a search no write (seeding, relaxation, candidate
\* finalization) increases a Node's cost once it is finite.
C9_CostNeverIncreases == [][CostsNotIncreased]_vars

\* the chain of a candidate is one forward transition and nothing reverses
SingleForwardHop(c) ==
    /\ Len(c.chain) = 1
    /\ nodes[c.node].curve_forward
    /\ isSegmentForward(start_segment, start_pt, Transitions[c.node].path[1])
    /\ isSegmentForward(end_segment, Last(Transitions[c.node].path), end_pt)

\* C10: the total of a candidate reached by one forward transition without
\* any reversal is the arc length plus the straight cost from the start point
\* to the transition's entry plus the straight cost from its exit to the end
\* point.
C10_SingleTransitionCost ==
    (pc = "returned" /\ Searched) =>
        \A i \in 1..Len(candidates) :
            SingleForwardHop(candidates[i]) =>
                candidates[i].total =
                    arc_length(candidates[i].node)
                    + Norm(Vec(start_pt, Transitions[candidates[i].node].path[1]))
                    + Norm(Vec(Last(Transitions[candidates[i].node].path), end_pt))

\* the point where a transition is entered when it is traversed in its Node's
\* curve direction (lines 127-129)
EntryPoint(t) ==
    IF initNodes[t].curve_forward THEN Transitions[t].path[1]
    ELSE Last(Transitions[t].path)

\* the travel direction of hop i of a chain: hop 0 runs on the start segment
\* from the start point to the entry of the first transition, hop i on the
\* segment after transition i to the entry of the next one or to the end point
HopForward(chain, i) ==
    IF i = 0
    THEN isSegmentForward(start_segment, start_pt, EntryPoint(chain[1]))
    ELSE isSegmentForward(initNodes[chain[i]].next_segment,
                          findStartPointOnNextSegment(initNodes, chain[i]),
                          IF i < Len(chain) THEN EntryPoint(chain[i + 1]) ELSE end_pt)

\* the surcharge of hop i: one turn when the direction differs from the one
\* of the preceding hop, two when it is kept against the curve direction
HopSurcharge(chain, i) ==
    IF i > 0 /\ HopForward(chain, i) # HopForward(chain, i - 1)
    THEN turning_penalty + turning_straight_segment
    ELSE IF HopForward(chain, i) # initNodes[chain[IF i = 0 THEN 1 ELSE i]].curve_forward
         THEN 2 * (turning_penalty + turning_straight_segment)
         ELSE 0

RECURSIVE HopSurcharges(_, _)
HopSurcharges(chain, i) ==
    IF i > Len(chain) THEN 0
    ELSE HopSurcharge(chain, i) + HopSurcharges(chain, i + 1)

\* C11: the turning surcharge inside the total cost of a finalized path is the
\* sum over its hops of one turn (turning_penalty + turning_straight_segment)
\* for a hop whose travel direction differs from the preceding one, two turns
\* for a hop that keeps the direction against its curve direction, and nothing
\* for any other hop.
C11_TurningSurcharge ==
    \A i \in 1..Len(candidates) :
        candidates[i].turning = HopSurcharges(candidates[i].chain, 0)

\* points of a segment's line: its ends and the projections served on it
SegmentPoints(segment) ==
    {Segments[segment].sp, Segments[segment].ep} \cup Projections[graph][segment]

\* calculateStraightCost without its turning surcharge
DistanceCost(n, a, b) ==
    calculateStraightCost(nodes, n, a, b) - TurnSurcharge(nodes, n, a, b)

\* C12 as stated: the curve cost of a backward Node is backward_penalty_factor
\* times the arc length, and calculateStraightCost of a backward movement is
\* backward_penalty_factor times calculateStraightCost of the forward movement
\* over the same distance.
C12_BackwardScaling ==
    pc \in {"loop", "relax"} =>
        \A n \in DOMAIN nodes :
            /\ ~nodes[n].curve_forward =>
                   calculateCurveCost(nodes, n) = RoundDiv(backward_penalty_factor * arc_length(n), 10)
            /\ \A a, b \in SegmentPoints(nodes[n].next_segment) :
                   ~isSegmentForward(nodes[n].next_segment, a, b) =>
                       calculateStraightCost(nodes, n, a, b)
                           = RoundDiv(backward_penalty_factor * calculateStraightCost(nodes, n, b, a), 10)

\* C12 (amended): the curve cost of a backward Node is backward_penalty_factor
\* times the arc length, and the distance part of calculateStraightCost (the
\* cost without the turning surcharge, which is added unscaled) of a backward
\* movement is backward_penalty_factor times the distance part of the forward
\* movement over the same distance.
C12_DistanceScaling ==
    pc \in {"loop", "relax"} =>
        \A n \in DOMAIN nodes :
            /\ ~nodes[n].curve_forward =>
                   calculateCurveCost(nodes, n) = RoundDiv(backward_penalty_factor * arc_length(n), 10)
            /\ \A a, b \in SegmentPoints(nodes[n].next_segment) :
                   ~isSegmentForward(nodes[n].next_segment, a, b) =>
                       DistanceCost(n, a, b)
                           = RoundDiv(backward_penalty_factor * DistanceCost(n, b, a), 10)

\* a candidate was finalized on a backward Node after a backward movement
\* to the end point
C12_Witness ==
    /\ pc = "loop"
    /\ \E i \in 1..Len(candidates) :
          LET n == candidates[i].node
              from == findStartPointOnNextSegment(nodes, n)
          IN  /\ ~nodes[n].curve_forward
              /\ ~isSegmentForward(nodes[n].next_segment, from, end_pt)
              /\ candidates[i].total >= calculateCurveCost(nodes, n)
              /\ Norm(Vec(from, end_pt)) > 0
              /\ end_pt \in SegmentPoints(nodes[n].next_segment)

\* point k of a transition's polyline in the order its Node traverses it
TraversalPoint(n, k) ==
    IF nodes[n].curve_forward THEN Transitions[n].path[k]
    ELSE Transitions[n].path[Len(Transitions[n].path) + 1 - k]

\* the poses insertCurveSegment appends to res for Node n
Appended(res, n) ==
    SubSeq(insertCurveSegment(res, nodes, n), Len(res) + 1,
           Len(insertCurveSegment(res, nodes, n)))

\* C13 as stated: insertCurveSegment appends one pose for every point of the
\* polyline, n poses for n points, in index order 0..n-1 for a forward Node
\* and n-1..0 for a backward Node.
C13_EveryPoint ==
    pc \in {"loop", "relax"} =>
        \A n \in DOMAIN nodes : \A res \in {<< >>, best_path} :
            /\ Len(Appended(res, n)) = Len(Transitions[n].path)
            /\ \A k \in 1..Len(Appended(res, n)) :
                  /\ Appended(res, n)[k].x = 1000 * TraversalPoint(n, k)[1]
                  /\ Appended(res, n)[k].y = 1000 * TraversalPoint(n, k)[2]

\* C13 (amended): insertCurveSegment appends one pose for every point of the
\* polyline except the first point of the traversal: n-1 poses for n points,
\* in index order 1..n-1 for a forward Node and n-2..0 for a backward Node,
\* each headed along the step from the point traversed before it, and res is
\* kept in front of them.
C13_EveryPointButTheFirst ==
    pc \in {"loop", "relax"} =>
        \A n \in DOMAIN nodes : \A res \in {<< >>, best_path} :
            /\ Len(Appended(res, n)) = Len(Transitions[n].path) - 1
            /\ SubSeq(insertCurveSegment(res, nodes, n), 1, Len(res)) = res
            /\ \A k \in 1..Len(Appended(res, n)) :
                  Appended(res, n)[k] =
                      PathPose(TraversalPoint(n, k + 1),
                               Atan2(TraversalPoint(n, k + 1)[2] - TraversalPoint(n, k)[2],
                                     TraversalPoint(n, k + 1)[1] - TraversalPoint(n, k)[1]))

\* the best path of a search is the start pose, the two poses rendered for
\* the three-point curve of a backward Node, and the end pose
C13_Witness ==
    /\ pc = "loop"
    /\ \E i \in 1..Len(candidates) :
          LET n == candidates[i].node
          IN  /\ candidates[i].chain = <<n>>
              /\ ~nodes[n].curve_forward
              /\ Len(Transitions[n].path) = 3
              /\ Len(best_path) = 4
              /\ SubSeq(best_path, 2, 3) = Appended(<< >>, n)
              /\ best_path[2].x = 1000 * Transitions[n].path[2][1]
              /\ best_path[3].x = 1000 * Transitions[n].path[1][1]

\* the number of polyline points of the transitions of a chain
RECURSIVE PolylinePoints(_)
PolylinePoints(chain) ==
    IF chain = << >> THEN 0
    ELSE Len(Transitions[Head(chain)].path) + PolylinePoints(Tail(chain))

\* a path starts with the start pose, ends with the end pose, and holds
\* between them only what the hops of the chain render: per transition its
\* curve and at most two turning stubs
StartsAndEndsOnce(path, chain) ==
    /\ Len(path) >= 2
    /\ path[1] = PathPose(start_pt, SegmentYaw(start_segment))
    /\ path[Len(path)] = PathPose(end_pt, SegmentYaw(end_segment))
    /\ Len(path) - 2 >= PolylinePoints(chain) - Len(chain)
    /\ Len(path) - 2 <= PolylinePoints(chain) + Len(chain)

\* C14: every path generatePath produces for a non-empty chain of Nodes has
\* the start point with the start segment's heading as its first pose and the
\* end point with the end segment's heading as its last pose, each of them
\* inserted once.
C14_FirstAndLastPose ==
    (pc \in {"loop", "relax", "returned"} /\ Searched /\ candidates # << >>) =>
        /\ \E i \in 1..Len(candidates) :
              StartsAndEndsOnce(best_path, candidates[i].chain)
        /\ \A i \in 1..Len(candidates) :
              StartsAndEndsOnce(PathOfChain(candidates[i].chain), candidates[i].chain)

\* a path over two transitions was generated between two different points
C14_Witness ==
    /\ pc = "returned"
    /\ Searched
    /\ start_pt # end_pt
    /\ \E i \in 1..Len(candidates) :
          /\ Len(candidates[i].chain) = 2
          /\ best_path = PathOfChain(candidates[i].chain)
          /\ result = start_appendix \o best_path \o end_appendix

\* pose sequences at hand: none, the two appendices, the best path
PoseSequences == {<< >>, start_appendix, end_appendix, best_path}

\* C15: combine(start, centre, end) is start followed by centre followed by
\* end for all inputs; with both appendices empty it is centre.
C15_CombineConcatenates ==
    \A start \in PoseSequences : \A centre \in PoseSequences : \A end \in PoseSequences :
        /\ Len(combine(start, centre, end)) = Len(start) + Len(centre) + Len(end)
        /\ SubSeq(combine(start, centre, end), 1, Len(start)) = start
        /\ SubSeq(combine(start, centre, end), Len(start) + 1, Len(start) + Len(centre))
               = centre
        /\ SubSeq(combine(start, centre, end), Len(start) + Len(centre) + 1,
                  Len(start) + Len(centre) + Len(end)) = end
        /\ combine(<< >>, centre, << >>) = centre

\* a search returned its best path between two appendices, all three with
\* poses
C15_Witness ==
    /\ pc = "returned"
    /\ Searched
    /\ start_appendix # << >>
    /\ end_appendix # << >>
    /\ best_path # << >>
    /\ candidates # << >>
    /\ Len(result) = Len(start_appendix) + Len(best_path) + Len(end_appendix)
    /\ combine(<< >>, best_path, end_appendix) = best_path \o end_appendix

\* enqueueStartingNodes has just returned
Seeded == pc = "loop" /\ Searched /\ current_node = NoNode

\* C16: after enqueueStartingNodes the frontier holds the Node of every
\* transition of the start segment's forward and backward lists, also when
\* two of them are seeded with the same cost.
C16_EverySeedEnqueued ==
    Seeded => \A t \in SeqToSet(TransitionsOf(start_segment)) : t \in SeqToSet(queue)

\* how often Node n is in the frontier q
Occurrences(q, n) == Cardinality({ i \in 1..Len(q) : q[i] = n })

\* the next step relaxes the neighbour at the head of pending to a lower cost
Improving ==
    /\ pc = "relax"
    /\ pending # << >>
    /\ RelaxedCost(nodes, current_node, Head(pending)) < nodes[Head(pending)].cost

RelaxKeepsFrontier ==
    Improving =>
        /\ Occurrences(queue', Head(pending)) = 1
        /\ \A t \in SeqToSet(queue) : t # Head(pending) => t \in SeqToSet(queue')

\* C17: a relaxation step that lowers a neighbour's cost leaves the neighbour
\* in the frontier exactly once, with its new cost, and removes no other Node
\* from the frontier.
C17_RelaxationKeepsFrontier == [][RelaxKeepsFrontier]_vars

\* C18: the Node the search loop takes from the frontier has a cost no
\* greater than the cost of any other Node in the frontier at that moment.
C18_LeastCostFirst ==
    (pc = "loop" /\ queue # << >>) =>
        \A i \in 1..Len(queue) : nodes[Head(queue)].cost <= nodes[queue[i]].cost

\* C19: when a neighbour is relaxed from the current Node, the straight cost
\* is measured from the current Node's exit point to the entry point of the
\* neighbour's own transition (first polyline point for a forward neighbour,
\* last for a backward one), whatever the curve direction of the current
\* Node.
C19_NeighbourEntryPoint ==
    (pc = "relax" /\ pending # << >>) =>
        findEndPointOnSegment(nodes, current_node, Head(pending)) = EntryPoint(Head(pending))

\* the Node calculateStraightCost is evaluated for by the next step: the
\* current Node while its neighbours are relaxed, the head of the frontier
\* when it is about to be finalized
Evaluated ==
    IF pc = "relax" /\ pending # << >> THEN {current_node}
    ELSE IF pc = "loop" /\ queue # << >> /\ nodes[Head(queue)].next_segment = end_segment
              /\ ~PrevCycle(nodes, Head(queue), {})
         THEN {Head(queue)}
         ELSE {}

\* the travel direction of the hop that leads to Node n: from its
\* predecessor's exit point, or from the start point, to n's entry point
TravelledToForward(n) ==
    IF nodes[n].prev = NoNode
    THEN isSegmentForward(start_segment, start_pt, EntryPoint(n))
    ELSE isSegmentForward(nodes[nodes[n].prev].next_segment,
                          findStartPointOnNextSegment(nodes, nodes[n].prev), EntryPoint(n))

\* C20: whenever calculateStraightCost is evaluated for a Node N, the
\* preceding direction it uses is the travel direction from the exit point of
\* N's predecessor (from the start point when N has none) to N's entry point,
\* also when the forward link of the predecessor points to another Node.
C20_PrecedingDirection ==
    \A n \in Evaluated : isPreviousSegmentForward(nodes, n) = TravelledToForward(n)

\* segment_forward of generatePath when its loop reaches transition i of a
\* chain (lines 432 and 539)
RECURSIVE SegmentForwardAt(_, _, _)
SegmentForwardAt(ns, chain, i) ==
    IF i = 1 THEN isStartSegmentForward(ns, chain[1])
    ELSE hopDirection(ns, chain[i - 1], SegmentForwardAt(ns, chain, i - 1))

\* res of generatePath after its loop has handled the first i transitions
PathAfter(ns, chain, i) ==
    generatePathLoop(ns, SubSeq(chain, 1, i), 1, insertFirstNode(<< >>),
                     isStartSegmentForward(ns, chain[1]))

\* the poses the loop of generatePath appends for transition i of a chain
HopPoses(ns, chain, i) ==
    SubSeq(PathAfter(ns, chain, i), Len(PathAfter(ns, chain, i - 1)) + 1,
           Len(PathAfter(ns, chain, i)))

\* transition i of a chain is a hop of non-negligible effective length whose
\* travel direction reverses
Reversing(ns, chain, i) ==
    /\ effectiveLengthOfNextSegment(ns, chain[i]) # 0
    /\ isNextSegmentForward(ns, chain[i]) # SegmentForwardAt(ns, chain, i)

\* the stubs: turning_straight_segment beyond the curve's last point along
\* the target segment, or before its first point against the source segment
TargetStub(n) == StubPose(Last(Transitions[n].path), SegmentYaw(Transitions[n].target))
SourceStub(n) == StubPose(Transitions[n].path[1], SegmentYaw(Transitions[n].source) + 180000)

\* what the claim has a reversing hop insert
ReversalPoses(ns, n, segment_forward) ==
    IF segment_forward
    THEN IF ns[n].curve_forward
         THEN CurvePoses(ns, n) \o <<TargetStub(n)>>
         ELSE <<TargetStub(n)>> \o CurvePoses(ns, n)
    ELSE IF ns[n].curve_forward
         THEN <<SourceStub(n)>> \o CurvePoses(ns, n)
         ELSE CurvePoses(ns, n) \o <<SourceStub(n)>>

\* C21: for a hop of generatePath with non-negligible effective length whose
\* travel direction reverses, exactly one stub and the curve are inserted:
\* segment forward and curve forward, the curve then the target stub; segment
\* forward and curve backward, the target stub then the curve; segment
\* backward and curve forward, the source stub then the curve; segment
\* backward and curve backward, the curve then the source stub.
C21_ReversalOrder ==
    (pc \in {"loop", "relax", "returned"} /\ Searched) =>
        \A c \in 1..Len(candidates) :
            LET chain == candidates[c].chain
                ns == RepairNext(initNodes, chain)
            IN  \A i \in 1..Len(chain) :
                    Reversing(ns, chain, i) =>
                        HopPoses(ns, chain, i)
                            = ReversalPoses(ns, chain[i], SegmentForwardAt(ns, chain, i))

\* the best path of a search is the start pose, the target stub, the curve of
\* a backward Node and the end pose: a reversal with the stub ahead of the
\* curve
C21_Witness ==
    /\ pc = "returned"
    /\ Searched
    /\ \E c \in 1..Len(candidates) :
          LET chain == candidates[c].chain
              ns == RepairNext(initNodes, chain)
          IN  /\ Len(chain) = 1
              /\ Reversing(ns, chain, 1)
              /\ SegmentForwardAt(ns, chain, 1)
              /\ ~ns[chain[1]].curve_forward
              /\ Len(Transitions[chain[1]].path) = 3
              /\ best_path = insertLastNode(insertFirstNode(<< >>)
                                 \o <<TargetStub(chain[1])>> \o CurvePoses(ns, chain[1]))
              /\ result = start_appendix \o best_path \o end_appendix

\* performDijkstraSearch is running
Searching == pc \in {"loop", "relax"}

\* the most transitions listed by one segment: the length of the longest
\* inner loop
MaxFanOut ==
    CHOOSE k \in 0..Len(Transitions) :
        /\ \A s \in SegmentIds : Len(TransitionsOf(s)) <= k
        /\ \E s \in SegmentIds : Len(TransitionsOf(s)) = k

\* the sum of the costs of the Nodes of S that can be expanded (those that do
\* not lead to the end segment)
RECURSIVE ExpandableCost(_, _)
ExpandableCost(ns, S) ==
    IF S = {}
    THEN 0
    ELSE LET n == CHOOSE m \in S : TRUE
         IN  (IF ns[n].next_segment = end_segment THEN 0 ELSE ns[n].cost)
                 + ExpandableCost(ns, S \ {n})

\* the loop iterations a frontier q and the rest pd of an inner loop can
\* still cause without a cost of an expandable Node going down: one for each
\* Node of q that leads to the end segment, and for each other Node of q its
\* own iteration, the inner loop it starts and the one Node each iteration of
\* that loop can put into the frontier
RECURSIVE Work(_, _, _)
Work(ns, q, pd) ==
    IF q = << >>
    THEN 2 * Len(pd)
    ELSE (IF ns[Head(q)].next_segment = end_segment THEN 1 ELSE 2 * MaxFanOut + 1)
             + Work(ns, Tail(q), pd)

\* C22: performDijkstraSearch terminates.  Every step of the running search
\* keeps the costs non-negative and lowers the pair (sum of the costs of the
\* expandable Nodes, work left in the frontier and the inner loop) in the
\* lexicographic order, which is well-founded, so no Node (a Node leading to
\* the end segment whose cost a finalization changed included) is put into
\* the frontier again and again without end; the walk of a finalization ends,
\* the loops always have a step to take, and the search returns only with
\* an empty frontier.
C22_SearchTerminates ==
    [][Searching =>
          /\ pc' \in {"loop", "relax", "returned"}
          /\ pc' = "relax" => pending' # << >>
          /\ pc' = "returned" => queue' = << >>
          /\ \A n \in DOMAIN nodes' : nodes'[n].cost >= 0
          /\ pc' \in {"loop", "relax"} =>
                \/ ExpandableCost(nodes', DOMAIN nodes') < ExpandableCost(nodes, DOMAIN nodes)
                \/ /\ ExpandableCost(nodes', DOMAIN nodes') = ExpandableCost(nodes, DOMAIN nodes)
                   /\ Work(nodes', queue', pending') < Work(nodes, queue, pending)]_vars

\* a search has returned, its frontier empty, in which a Node went into the
\* frontier more than once: two seeds a and b of different cost were both
\* expanded, both lead to the segment that lists Node n, and n ends with the
\* costlier seed b as its predecessor
C22_Witness ==
    /\ pc = "returned"
    /\ Searched
    /\ queue = << >>
    /\ \E n \in DOMAIN nodes : \E a \in DOMAIN nodes : \E b \in DOMAIN nodes :
          /\ a \in SeqToSet(TransitionsOf(start_segment))
          /\ b \in SeqToSet(TransitionsOf(start_segment))
          /\ nodes[a].prev = NoNode
          /\ nodes[b].prev = NoNode
          /\ nodes[a].cost < nodes[b].cost
          /\ nodes[a].next # NoNode
          /\ nodes[b].next # NoNode
          /\ n \in SeqToSet(TransitionsOf(nodes[a].next_segment))
          /\ n \in SeqToSet(TransitionsOf(nodes[b].next_segment))
          /\ nodes[n].prev = b

\* the prev links of ns form no cycle
NoPrevCycle(ns) == \A n \in DOMAIN ns : ~PrevCycle(ns, n, {})

\* the loop is about to take a Node that leads to the end segment
Finalizes ==
    /\ pc = "loop"
    /\ queue # << >>
    /\ nodes[Head(queue)].next_segment = end_segment

\* C23: in every state of a search the prev links of the Nodes form no cycle,
\* so the chain walk of generatePathCandidate ends; and when a candidate beats
\* min_cost and its chain is reconstructed, the chain ends in the finalized
\* Node, follows the prev links back to a Node without predecessor, that root
\* is the Node of a transition of the start segment, and every consecutive
\* pair (a, b) of the chain has a.next = b afterwards.
C23_PrevChain ==
    [][/\ NoPrevCycle(nodes')
       /\ (Finalizes /\ min_cost' < min_cost) =>
              /\ pc' = "loop"
              /\ Len(candidates') = Len(candidates) + 1
              /\ LET chain == Last(candidates').chain
                 IN  /\ chain # << >>
                     /\ Last(chain) = Head(queue)
                     /\ nodes'[chain[1]].prev = NoNode
                     /\ chain[1] \in SeqToSet(TransitionsOf(start_segment))
                     /\ \A i \in 1..(Len(chain) - 1) :
                            /\ nodes'[chain[i + 1]].prev = chain[i]
                            /\ nodes'[chain[i]].next = chain[i + 1]]_vars

\* a chain of two Nodes has just been reconstructed: its root is a Node of the
\* start segment from which two neighbours were relaxed, the links of the chain
\* hold, and no earlier candidate of the search reached its total
C23_Witness ==
    /\ pc = "loop"
    /\ Searched
    /\ candidates # << >>
    /\ LET last == Last(candidates)
       IN  /\ last.node = current_node
           /\ last.total = min_cost
           /\ \A i \in 1..(Len(candidates) - 1) : candidates[i].total > last.total
           /\ Len(last.chain) = 2
           /\ last.chain[1] \in SeqToSet(TransitionsOf(start_segment))
           /\ nodes[last.chain[1]].prev = NoNode
           /\ nodes[last.chain[2]].prev = last.chain[1]
           /\ nodes[last.chain[1]].next = last.chain[2]
           /\ \E m \in DOMAIN nodes :
                  m # last.chain[2] /\ nodes[m].prev = last.chain[1]

====
